---------------------------- MODULE Spec2Model ----------------------------
(***************************************************************************)
(* Model of chaos.py: discs in a closed arena that move at constant speed, *)
(* bounce off the walls and collide elastically.                           *)
(*                                                                         *)
(* Numbers.  The program computes in floating point.  The model computes   *)
(* in exact arithmetic: a rational is a record [n, d] in lowest terms with *)
(* d > 0; a square root is a surd [c, r], the number c * sqrt(r) with c a  *)
(* rational and r an integer, no square; a heading is q quarter turns plus *)
(* or minus the angle of a primitive integer vector (a, b).  So sqrt,      *)
(* atan2, cos and sin are exact on every value the model reaches.          *)
(* Rounding error is outside the model.                                    *)
(***************************************************************************)
EXTENDS Integers, Sequences, FiniteSets, TLC

VARIABLES
    balls,      \* the global list `balls` (chaos.py:12)
    ID,         \* the class counter Ball.ID (chaos.py:87)
    pc,         \* position of main(): "place", "run", "quit"; or the
                \* phase of a unit specification
    entrophy,   \* main's argument: the number of balls to place
    new_ball,   \* main's local new_ball: the last candidate constructed
    made,       \* result of the last explicit Ball(radius, angle) call
    ticks,      \* number of iterations of the main loop so far
    prev        \* `balls` before the last operation (history variable)

vars == <<balls, ID, pc, entrophy, new_ball, made, ticks, prev>>

---------------------------------------------------------------------------
(* Program constants *)

WIDTH == 1000
HEIGHT == 1000
FPS == 60
R_MIN == 2
R_MAX == (IF WIDTH < HEIGHT THEN WIDTH ELSE HEIGHT) \div 4
V_MAX == FPS \div 30

---------------------------------------------------------------------------
(* Exact rational arithmetic *)

Abs(i) == IF i < 0 THEN -i ELSE i

Sgn(i) == IF i < 0 THEN -1 ELSE IF i > 0 THEN 1 ELSE 0

\* Euclid's algorithm, on values
GcdOf[i \in Int, j \in Int] == IF j = 0 THEN Abs(i) ELSE GcdOf[j, i % Abs(j)]

Gcd(i, j) == GcdOf[i, j]

\* the rational n/d (d # 0) in lowest terms
Q(n, d) ==
    LET g == Gcd(n, d)
        s == IF d < 0 THEN -1 ELSE 1
    IN  [n |-> s * (n \div g), d |-> s * (d \div g)]

I(i) == [n |-> i, d |-> 1]

Zero == I(0)

Neg(r) == [n |-> -r.n, d |-> r.d]

Add(r, t) ==
    LET g == Gcd(r.d, t.d)
    IN  Q(r.n * (t.d \div g) + t.n * (r.d \div g), (r.d \div g) * t.d)

Sub(r, t) == Add(r, Neg(t))

Mul(r, t) ==
    LET g1 == Gcd(r.n, t.d)
        g2 == Gcd(t.n, r.d)
    IN  IF r.n = 0 \/ t.n = 0 THEN Zero
        ELSE [n |-> (r.n \div g1) * (t.n \div g2),
              d |-> (r.d \div g2) * (t.d \div g1)]

\* r / t, t # 0
Div(r, t) == Mul(r, Q(t.d, t.n))

Half(r) == Mul(r, Q(1, 2))

Sq(r) == Mul(r, r)

Less(r, t) ==
    LET g == Gcd(r.d, t.d)
    IN  r.n * (t.d \div g) < t.n * (r.d \div g)

Leq(r, t) == r = t \/ Less(r, t)

\* the largest s in lo..hi with s * s <= i, by bisection
ISqrtOf[i \in Int, lo \in Int, hi \in Int] ==
    IF lo >= hi THEN lo
    ELSE IF (lo + hi + 1) \div 2 <= i \div ((lo + hi + 1) \div 2)
         THEN ISqrtOf[i, (lo + hi + 1) \div 2, hi]
         ELSE ISqrtOf[i, lo, (lo + hi + 1) \div 2 - 1]

ISqrtIter(i, lo, hi) == ISqrtOf[i, lo, hi]

\* the integer square root of a perfect square i >= 0 (undefined otherwise)
ISqrt(i) == CHOOSE s \in {ISqrtIter(i, 0, i)} : s * s = i

\* x ** 0.5 for a rational that is the square of a rational
Sqrt(r) == [n |-> ISqrt(r.n), d |-> ISqrt(r.d)]

(* Surds: [c, r] is c * sqrt(r), c >= 0 rational, r >= 1 an integer that  *)
(* is 1 or not a perfect square                                           *)

Surd(c, r) ==
    LET k == ISqrtIter(r, 0, r)
    IN  IF c = Zero THEN [c |-> Zero, r |-> 1]
        ELSE IF k * k = r THEN [c |-> Mul(c, I(k)), r |-> 1]
        ELSE [c |-> c, r |-> r]

\* the square of a surd, a rational
SurdSq(s) == Mul(Sq(s.c), I(s.r))

\* the surd as a rational (undefined when it is irrational)
Rat(s) == CHOOSE c \in {s.c} : s.r = 1

\* surd < rational and surd <= rational, for a rational t >= 0
SurdLess(s, t) == IF s.r = 1 THEN Less(s.c, t) ELSE Less(SurdSq(s), Sq(t))

SurdLeq(s, t) == IF s.r = 1 THEN Leq(s.c, t) ELSE Leq(SurdSq(s), Sq(t))

\* (x ** 2 + y ** 2) ** 0.5 of two rationals
hypot(x, y) ==
    LET g == Gcd(x.d, y.d)
        X == x.n * (y.d \div g)
        Y == y.n * (x.d \div g)
        L == (x.d \div g) * y.d
        h == Gcd(X, Y)
        a == Abs(X) \div h
        b == Abs(Y) \div h
    IN  IF h = 0 THEN [c |-> Zero, r |-> 1]
        ELSE Surd(Q(h, L), a * a + b * b)


---------------------------------------------------------------------------
(* Headings.  The record [q, s, a, b] is the angle q*(pi/2) + s*theta,    *)
(* where theta = atan(b/a) for coprime integers a >= b > 0 and s is 1 or  *)
(* -1, or s = 0 (then a = 1, b = 0) for a multiple of pi/2.  AngleNorm    *)
(* makes the record of an angle unique.                                   *)

AngleNorm(q, s, a, b) ==
    IF s = 0 \/ b = 0 THEN [q |-> q, s |-> 0, a |-> 1, b |-> 0]
    ELSE IF a = 0 THEN [q |-> q + s, s |-> 0, a |-> 1, b |-> 0]
    ELSE IF a < b THEN [q |-> q + s, s |-> -s, a |-> b, b |-> a]
    ELSE IF a = b /\ s = -1 THEN [q |-> q - 1, s |-> 1, a |-> a, b |-> b]
    ELSE [q |-> q, s |-> s, a |-> a, b |-> b]

\* pi - angle
PiMinus(angle) == AngleNorm(2 - angle.q, -angle.s, angle.a, angle.b)

\* -angle
Minus(angle) == AngleNorm(-angle.q, -angle.s, angle.a, angle.b)

\* 0 <= angle <= 2*pi
AngleInRange(angle) ==
    CASE angle.s = 0 -> 0 <= angle.q /\ angle.q <= 4
      [] angle.s = 1 -> 0 <= angle.q /\ angle.q <= 3
      [] OTHER       -> 1 <= angle.q /\ angle.q <= 4

\* an integer vector with the direction of the heading; its length is
\* Hyp2(angle) ** 0.5
Dir(angle) ==
    LET k == angle.q % 4
        c == angle.a
        d == angle.s * angle.b
    IN  CASE k = 0 -> <<c, d>>
          [] k = 1 -> <<-d, c>>
          [] k = 2 -> <<-c, -d>>
          [] OTHER -> <<d, -c>>

Hyp2(angle) == angle.a * angle.a + angle.b * angle.b

\* the sign of cos(angle) and of sin(angle)
cosSign(angle) == Sgn(Dir(angle)[1])

sinSign(angle) == Sgn(Dir(angle)[2])

\* v * cos(angle) and v * sin(angle) for a speed v (a surd)
VCos(v, angle) ==
    Mul(Mul(v.c, I(Dir(angle)[1])), Sqrt(Q(v.r, Hyp2(angle))))

VSin(v, angle) ==
    Mul(Mul(v.c, I(Dir(angle)[2])), Sqrt(Q(v.r, Hyp2(angle))))

\* math.atan2(y, x) of two rationals: the angle in (-pi, pi] of (x, y)
atan2(y, x) ==
    LET g == Gcd(x.d, y.d)
        X == x.n * (y.d \div g)
        Y == y.n * (x.d \div g)
        h == Gcd(X, Y)
        a == Abs(X) \div h
        b == Abs(Y) \div h
    IN  IF X = 0 /\ Y = 0 THEN AngleNorm(0, 0, 1, 0)
        ELSE IF Y = 0 THEN AngleNorm(IF X > 0 THEN 0 ELSE 2, 0, 1, 0)
        ELSE IF X = 0 THEN AngleNorm(IF Y > 0 THEN 1 ELSE -1, 0, 1, 0)
        ELSE IF X > 0 THEN AngleNorm(0, Sgn(Y), a, b)
        ELSE IF Y > 0 THEN AngleNorm(2, -1, a, b)
        ELSE AngleNorm(-2, 1, a, b)

---------------------------------------------------------------------------
(* class Ball.  A ball is a record [id, radius, v, angle, x, y]; the       *)
(* colour is presentation only and is left out.                           *)

m(ball) == ball.radius * ball.radius * ball.radius

vx(ball) == VCos(ball.v, ball.angle)

vy(ball) == VSin(ball.v, ball.angle)

is_outside(ball) ==
    \/ Less(ball.x, Zero)
    \/ Less(I(WIDTH), ball.x)
    \/ Less(ball.y, Zero)
    \/ Less(I(HEIGHT), ball.y)

distance(p1, p2) == hypot(Sub(p1[1], p2[1]), Sub(p1[2], p2[2]))

is_collide_mut(self, ball) ==
    SurdLeq(distance(<<self.x, self.y>>, <<ball.x, ball.y>>), I(self.radius))

is_collide(self, ball) ==
    SurdLeq(distance(<<self.x, self.y>>, <<ball.x, ball.y>>),
            I(self.radius + ball.radius))

\* the left-wall and right-wall tests of move (candidate x, heading)
hitLeft_mut(x, radius, angle) ==
    Less(Sub(x, I(radius)), Zero) /\ cosSign(angle) > 0

hitLeft(x, radius, angle) ==
    Less(Sub(x, I(radius)), Zero) /\ cosSign(angle) < 0

hitRight(x, radius, angle) ==
    Less(I(WIDTH), Add(x, I(radius))) /\ cosSign(angle) > 0

\* the top-wall and bottom-wall tests of move (candidate y, heading)
hitTop(y, radius, angle) ==
    Less(Sub(y, I(radius)), Zero) /\ sinSign(angle) < 0

hitBottom(y, radius, angle) ==
    Less(I(HEIGHT), Add(y, I(radius))) /\ sinSign(angle) > 0

\* the second if/elif of move: whether a horizontal wall reflects, given
\* whether a vertical wall did
reflectY_mut(hitX, y, radius, angle) ==
    ~hitX /\ (hitTop(y, radius, angle) \/ hitBottom(y, radius, angle))

reflectY(hitX, y, radius, angle) ==
    hitTop(y, radius, angle) \/ hitBottom(y, radius, angle)

move(self) ==
    LET x0 == Add(self.x, vx(self))
        y0 == Add(self.y, vy(self))
        hitX == \/ hitLeft(x0, self.radius, self.angle)
                \/ hitRight(x0, self.radius, self.angle)
        angle1 == IF hitX THEN PiMinus(self.angle) ELSE self.angle
        x1 == IF hitX THEN self.x ELSE x0
        hitY == reflectY(hitX, y0, self.radius, angle1)
        angle2 == IF hitY THEN Minus(angle1) ELSE angle1
        y1 == IF hitY THEN self.y ELSE y0
    IN  [self EXCEPT !.angle = angle2, !.x = x1, !.y = y1]

---------------------------------------------------------------------------
(* collisions(): one pass over all pairs i < j in index order *)

\* line 32
detect(dist, min_distance) == SurdLess(dist, I(min_distance))

\* lines 34-40: <<nx, ny, dist>> after the substitution for dist = 0
normal(dx, dy, dist) ==
    IF dist.c = Zero THEN <<I(1), Zero, I(1)>>
    ELSE <<Div(dx, Rat(dist)), Div(dy, Rat(dist)), Rat(dist)>>

\* lines 43-47: the positional correction of the pair
correct(ball1, ball2, nx, ny, overlap) ==
    << [ball1 EXCEPT !.x = Sub(ball1.x, Half(Mul(overlap, nx))),
                     !.y = Sub(ball1.y, Half(Mul(overlap, ny)))],
       [ball2 EXCEPT !.x = Add(ball2.x, Half(Mul(overlap, nx))),
                     !.y = Add(ball2.y, Half(Mul(overlap, ny)))] >>

\* lines 49-52: the relative velocity projected on the normal
projection(ball1, ball2, nx, ny) ==
    LET dvx == Sub(vx(ball2), vx(ball1))
        dvy == Sub(vy(ball2), vy(ball1))
    IN  Add(Mul(dvx, nx), Mul(dvy, ny))

\* line 55: the pair is already separating
separating_mut(velocity_along_normal) == FALSE

separating(velocity_along_normal) == Less(Zero, velocity_along_normal)

\* line 62
impulse_mut(velocity_along_normal, m1, m2) ==
    Div(velocity_along_normal, I(m1 + m2))

impulse(velocity_along_normal, m1, m2) ==
    Div(Mul(I(2), velocity_along_normal), I(m1 + m2))

\* lines 65-69: <<vx1, vy1, vx2, vy2>> (restitution = 1.0)
response_mut(ball1, ball2, nx, ny, imp) ==
    << Add(vx(ball1), Mul(Mul(imp, I(m(ball2))), nx)),
       Add(vy(ball1), Mul(Mul(imp, I(m(ball2))), ny)),
       Sub(vx(ball2), Mul(Mul(imp, I(m(ball2))), nx)),
       Sub(vy(ball2), Mul(Mul(imp, I(m(ball2))), ny)) >>

response(ball1, ball2, nx, ny, imp) ==
    << Add(vx(ball1), Mul(Mul(imp, I(m(ball2))), nx)),
       Add(vy(ball1), Mul(Mul(imp, I(m(ball2))), ny)),
       Sub(vx(ball2), Mul(Mul(imp, I(m(ball1))), nx)),
       Sub(vy(ball2), Mul(Mul(imp, I(m(ball1))), ny)) >>

\* lines 71-80: speed and heading from the velocity components
setVelocity(ball, vx1, vy1) ==
    [ball EXCEPT !.v = hypot(vx1, vy1), !.angle = atan2(vy1, vx1)]

\* the body of the inner loop for one pair: <<ball1, ball2>> afterwards
collidePair(ball1, ball2) ==
    LET dx == Sub(ball2.x, ball1.x)
        dy == Sub(ball2.y, ball1.y)
        dist == hypot(dx, dy)
        min_distance == ball1.radius + ball2.radius
    IN  IF ~detect(dist, min_distance) THEN <<ball1, ball2>>
        ELSE
          LET nd == normal(dx, dy, dist)
              nx == nd[1]
              ny == nd[2]
              overlap == Sub(I(min_distance), nd[3])
              moved == correct(ball1, ball2, nx, ny, overlap)
              velocity_along_normal == projection(ball1, ball2, nx, ny)
          IN  IF separating(velocity_along_normal) THEN moved
              ELSE
                LET imp == impulse(velocity_along_normal, m(ball1), m(ball2))
                    w == response(ball1, ball2, nx, ny, imp)
                IN  << setVelocity(moved[1], w[1], w[2]),
                       setVelocity(moved[2], w[3], w[4]) >>

\* the pairs from (i, j) on, in the order of the two nested loops
RECURSIVE collideFrom(_, _, _)
collideFrom(bs, i, j) ==
    IF i > Len(bs) THEN bs
    ELSE IF j > Len(bs) THEN collideFrom(bs, i + 1, i + 2)
    ELSE LET r == collidePair(bs[i], bs[j])
         IN  collideFrom([bs EXCEPT ![i] = r[1], ![j] = r[2]], i, j + 1)

collisions(bs) == collideFrom(bs, 1, 2)


---------------------------------------------------------------------------
(* Ball.__init__ *)

\* headings used as samples: h*(pi/2) and the angles of the 3-4-5 triangle
Axis(q) == AngleNorm(q, 0, 1, 0)

Pyth(q, s) == AngleNorm(q, s, 4, 3)

\* values random() * 2 * pi can take: a sample of [0, 2*pi)
AngleDraws ==
    {Axis(q) : q \in 0..3} \cup {Pyth(q, 1) : q \in 0..3}
        \cup {Pyth(q, -1) : q \in 1..4}

\* values random() can take: a sample of [0, 1)
RandomDraws == {Zero, Q(1, 2), Q(3, 4)}

\* an argument of Ball(radius, angle): absent, or a value and whether
\* isinstance(value, int) / isinstance(value, (int, float)) holds
None == [given |-> FALSE, isint |-> FALSE, isnum |-> FALSE, v |-> 0]

\* the default None of the parameter angle
NoAngle ==
    [given |-> FALSE, isint |-> FALSE, isnum |-> FALSE,
     v |-> AngleNorm(0, 0, 1, 0)]

IntArg(i) == [given |-> TRUE, isint |-> TRUE, isnum |-> TRUE, v |-> i]

\* a float with an integral value, such as 300.0
FloatArg(i) == [given |-> TRUE, isint |-> FALSE, isnum |-> TRUE, v |-> i]

AngleArg(angle) ==
    [given |-> TRUE, isint |-> FALSE, isnum |-> TRUE, v |-> angle]

NoBall ==
    [id |-> -1, radius |-> 0, v |-> Surd(Zero, 1), angle |-> Axis(0),
     x |-> Zero, y |-> Zero]

\* lines 99-103: the radius check is made for an int only
radiusChecked(radius) == radius.isint

\* lines 109-113
angleChecked(angle) == angle.isnum

\* Ball(radius, angle) with the random draws rnd = [radius, u, angle, x, y]:
\* [raised |-> TRUE] when an assert fails, else the ball
Ball(id, radius, angle, rnd) ==
    IF radiusChecked(radius) /\ ~(R_MIN <= radius.v /\ radius.v <= R_MAX)
    THEN [raised |-> TRUE, ball |-> NoBall]
    ELSE IF angleChecked(angle) /\ ~AngleInRange(angle.v)
    THEN [raised |-> TRUE, ball |-> NoBall]
    ELSE [raised |-> FALSE,
          ball |-> [id |-> id,
                    radius |-> IF radiusChecked(radius) THEN radius.v
                               ELSE rnd.radius,
                    v |-> Surd(Mul(rnd.u, I(V_MAX)), 1),
                    angle |-> IF angleChecked(angle) THEN angle.v
                              ELSE rnd.angle,
                    x |-> I(rnd.x),
                    y |-> I(rnd.y)]]

\* lines 115-116: randint(radius, WIDTH - radius) returned x and
\* randint(radius, HEIGHT - radius) returned y
randintOK(ball) ==
    /\ Leq(I(ball.radius), ball.x) /\ Leq(ball.x, I(WIDTH - ball.radius))
    /\ Leq(I(ball.radius), ball.y) /\ Leq(ball.y, I(HEIGHT - ball.radius))

---------------------------------------------------------------------------
(* Bounds of the model *)

MaxID == 4          \* Ball.ID is counted up to here
MaxBalls == 3       \* largest number of balls main is asked to place
MaxTicks == 6       \* iterations of the main loop explored

\* Ball.ID += 1, not counted beyond MaxID
NextID(n) == IF n < MaxID THEN n + 1 ELSE n

NoCall == [called |-> FALSE, radius |-> None, angle |-> NoAngle,
           raised |-> FALSE, ball |-> NoBall]

---------------------------------------------------------------------------
(* Explicit construction: Ball(radius, angle) called once more *)

RadiusArgs ==
    {None, IntArg(R_MIN - 1), IntArg(R_MIN), IntArg(R_MAX),
     IntArg(R_MAX + 1), FloatArg(R_MAX + 50), FloatArg(1)}

AngleArgs ==
    {NoAngle, AngleArg(Axis(0)), AngleArg(Axis(4)), AngleArg(Axis(5)),
     AngleArg(Axis(-1)), AngleArg(Pyth(1, 1)), AngleArg(Pyth(0, -1))}

CtorDraws ==
    [radius : {R_MIN, R_MAX}, u : {Q(1, 2)}, angle : {Axis(1), Pyth(2, 1)},
     x : {R_MAX, WIDTH - R_MAX}, y : {HEIGHT \div 2}]

InitCtor ==
    /\ balls = <<>>
    /\ ID = 0
    /\ pc = "ctor"
    /\ entrophy = 0
    /\ new_ball = NoBall
    /\ made = NoCall
    /\ ticks = 0
    /\ prev = <<>>

Construct ==
    /\ pc = "ctor"
    /\ ID < MaxID
    /\ \E radius \in RadiusArgs, angle \in AngleArgs, rnd \in CtorDraws :
         LET res == Ball(ID, radius, angle, rnd)
         IN  /\ res.raised \/ randintOK(res.ball)
             /\ made' = [called |-> TRUE, radius |-> radius, angle |-> angle,
                         raised |-> res.raised, ball |-> res.ball]
    /\ ID' = ID + 1
    /\ UNCHANGED <<balls, pc, entrophy, new_ball, ticks, prev>>

NextCtor == Construct

SpecCtor == InitCtor /\ [][NextCtor]_vars

---------------------------------------------------------------------------
(* Placement: lines 176-184 of main *)

PlaceDraws ==
    [radius : {2, 3}, u : {Q(1, 2)}, angle : {Axis(0)},
     x : {3, 8, 13}, y : {3, 6}]

InitPlace ==
    /\ balls = <<>>
    /\ ID = 0
    /\ pc = "place"
    /\ entrophy \in 1..MaxBalls
    /\ new_ball = NoBall
    /\ made = NoCall
    /\ ticks = 0
    /\ prev = <<>>

\* the balls Ball() can return, the id aside
Candidates ==
    {b \in {Ball(0, None, NoAngle, rnd).ball : rnd \in PlaceDraws} :
        randintOK(b)}

\* new_ball.is_collide(ball), tabulated over the candidates
Clashes == {p \in Candidates \X Candidates : is_collide(p[1], p[2])}

\* lines 179-181: the candidate collides with some accepted ball
collidesAny(ball, bs) ==
    \E i \in 1..Len(bs) :
        <<[ball EXCEPT !.id = 0], [bs[i] EXCEPT !.id = 0]>> \in Clashes

\* one iteration of `while True` that ends in balls.append(new_ball)
Accept ==
    /\ pc = "place"
    /\ \E c \in Candidates :
         /\ ~collidesAny(c, balls)
         /\ new_ball' = [c EXCEPT !.id = ID]
         /\ balls' = Append(balls, [c EXCEPT !.id = ID])
         /\ pc' = IF Len(balls) + 1 >= entrophy THEN "run" ELSE "place"
    /\ ID' = NextID(ID)
    /\ UNCHANGED <<entrophy, made, ticks, prev>>

\* one iteration of `while True` that ends in the inner break
Reject ==
    /\ pc = "place"
    /\ \E c \in Candidates :
         /\ collidesAny(c, balls)
         /\ new_ball' = [c EXCEPT !.id = ID]
    /\ ID' = NextID(ID)
    /\ UNCHANGED <<balls, pc, entrophy, made, ticks, prev>>

NextPlace == Accept \/ Reject

SpecPlace == InitPlace /\ [][NextPlace]_vars

\* the loop keeps running, and a candidate that fits is eventually drawn
\* whenever one exists
SpecPlaceFair == SpecPlace /\ WF_vars(NextPlace) /\ WF_vars(Accept)


---------------------------------------------------------------------------
(* The main loop: lines 186-207 of main *)

\* lines 195-196
moveAll(bs) == [i \in 1..Len(bs) |-> move(bs[i])]

\* line 200
cull(bs) == SelectSeq(bs, LAMBDA ball : ~is_outside(ball))

\* lines 195-200: one iteration without the event polling and the drawing
step_mut(bs) == collisions(cull(moveAll(bs)))

step(bs) == cull(collisions(moveAll(bs)))

\* an iteration in which no QUIT or ESCAPE event is polled
Tick ==
    /\ pc = "run"
    /\ ticks < MaxTicks
    /\ balls' = step(balls)
    /\ prev' = balls
    /\ ticks' = ticks + 1
    /\ UNCHANGED <<ID, pc, entrophy, new_ball, made>>

\* an iteration in which QUIT or ESCAPE is polled: running becomes False,
\* the iteration is finished and the loop ends
QuitTick ==
    /\ pc = "run"
    /\ ticks < MaxTicks
    /\ balls' = step(balls)
    /\ prev' = balls
    /\ ticks' = ticks + 1
    /\ pc' = "quit"
    /\ UNCHANGED <<ID, entrophy, new_ball, made>>

NextRun == Tick \/ QuitTick

\* a ball as Ball() makes it
Made(id, radius, u, angle, x, y) ==
    Ball(id, None, NoAngle,
         [radius |-> radius, u |-> u, angle |-> angle, x |-> x, y |-> y]).ball

\* what placement leaves: every ball inside, no two touching
Placed(bs) ==
    /\ \A i \in 1..Len(bs) : randintOK(bs[i])
    /\ \A i, j \in 1..Len(bs) : i < j => ~is_collide(bs[j], bs[i])

(* A single ball anywhere near a wall or a corner, any heading *)

WallBalls ==
    {Made(0, r, u, a, x, y) :
        r \in {R_MIN, 3}, u \in RandomDraws, a \in AngleDraws,
        x \in {2, 3, 4, WIDTH - 3}, y \in {3, 4, HEIGHT - 4, HEIGHT - 2}}

InitWall ==
    /\ \E b \in WallBalls : randintOK(b) /\ balls = <<b>>
    /\ ID = 1
    /\ pc = "run"
    /\ entrophy = 1
    /\ new_ball = balls[1]
    /\ made = NoCall
    /\ ticks = 0
    /\ prev = balls

SpecWall == InitWall /\ [][NextRun]_vars


(* Several balls on one horizontal line, as placement may leave them *)

LineBalls(id, radii, xs) ==
    {Made(id, r, u, a, x, HEIGHT \div 2) :
        r \in radii, u \in {Zero, Q(3, 4)}, a \in {Axis(0), Axis(2)},
        x \in xs}

LineSets ==
    {<<b0, b1>> : b0 \in LineBalls(0, {R_MIN}, {2, 3}),
                  b1 \in LineBalls(1, {R_MIN, 6}, {8, 12, 13})}
        \cup {<<b0, b1, b2>> :
                b0 \in LineBalls(0, {R_MIN}, {2, 3}),
                b1 \in LineBalls(1, {R_MIN}, {7, 8}),
                b2 \in LineBalls(2, {R_MIN}, {12, 13, WIDTH - 2})}

InitTick ==
    /\ balls \in LineSets
    /\ Placed(balls)
    /\ ID = Len(balls)
    /\ pc = "run"
    /\ entrophy = Len(balls)
    /\ new_ball = balls[Len(balls)]
    /\ made = NoCall
    /\ ticks = 0
    /\ prev = balls

SpecTick == InitTick /\ [][NextRun]_vars

---------------------------------------------------------------------------
(* collisions() applied once to one pair of balls *)

CollAngles == {Axis(0), Axis(2), Axis(3), Pyth(0, 1), Pyth(2, -1), Pyth(3, 1)}

\* the second ball's centre relative to the first
Offsets == {<<0, 0>>, <<3, 0>>, <<0, -3>>, <<3, 4>>, <<-4, 3>>}

PairSet(radii, us, angles, offsets) ==
    {<< Made(0, r1, u1, a1, WIDTH \div 2, HEIGHT \div 2),
        Made(1, r2, u2, a2, WIDTH \div 2 + o[1], HEIGHT \div 2 + o[2]) >> :
        r1 \in radii, r2 \in radii, u1 \in us, u2 \in us,
        a1 \in angles, a2 \in angles, o \in offsets}

Pairs ==
    PairSet({R_MIN, 4}, RandomDraws, CollAngles, Offsets)
        \cup PairSet({3, 5}, {Zero, Q(1, 2)}, {Axis(q) : q \in 0..3},
                     {<<0, 0>>, <<5, 0>>, <<0, 4>>})

InitColl ==
    /\ balls \in Pairs
    /\ ID = 2
    /\ pc = "pair"
    /\ entrophy = 2
    /\ new_ball = balls[2]
    /\ made = NoCall
    /\ ticks = 0
    /\ prev = balls

Collide ==
    /\ pc = "pair"
    /\ balls' = collisions(balls)
    /\ prev' = balls
    /\ pc' = "collided"
    /\ UNCHANGED <<ID, entrophy, new_ball, made, ticks>>

NextColl == Collide

SpecColl == InitColl /\ [][NextColl]_vars


---------------------------------------------------------------------------
(* Properties of one collision response (SpecColl) *)

\* the distance of the centres of a pair
separation(bs) == distance(<<bs[1].x, bs[1].y>>, <<bs[2].x, bs[2].y>>)

\* collisions() detects the pair as colliding
Detected(bs) == detect(separation(bs), bs[1].radius + bs[2].radius)

\* the normal from ball 1 to ball 2 that collisions() uses for the pair
normalOf(bs) ==
    normal(Sub(bs[2].x, bs[1].x), Sub(bs[2].y, bs[1].y), separation(bs))

\* the projection of v_2 - v_1 on that normal
projectionOf(bs) ==
    projection(bs[1], bs[2], normalOf(bs)[1], normalOf(bs)[2])

\* m_1 * v_1 + m_2 * v_2
momentum(bs) ==
    << Add(Mul(I(m(bs[1])), vx(bs[1])), Mul(I(m(bs[2])), vx(bs[2]))),
       Add(Mul(I(m(bs[1])), vy(bs[1])), Mul(I(m(bs[2])), vy(bs[2]))) >>

\* (1/2) * m_1 * |v_1|^2 + (1/2) * m_2 * |v_2|^2
energy(bs) ==
    Add(Mul(Q(m(bs[1]), 2), SurdSq(bs[1].v)),
        Mul(Q(m(bs[2]), 2), SurdSq(bs[2].v)))

\* C3: a pair that collisions() detects and processes once has the same
\* total momentum m_1*v_1 + m_2*v_2 (m = radius^3) after as before
MomentumConserved ==
    (pc = "collided" /\ Detected(prev)) => momentum(balls) = momentum(prev)

\* a detected pair of unequal mass whose velocities the impulse changed
MomentumWitness ==
    /\ pc = "collided"
    /\ Detected(prev)
    /\ prev[1].radius # prev[2].radius
    /\ balls[1].v # prev[1].v
    /\ balls[2].v # prev[2].v

\* C4: a pair that collisions() detects and processes once has the same
\* total kinetic energy after as before, whether or not the impulse is
\* applied
EnergyConserved ==
    (pc = "collided" /\ Detected(prev)) => energy(balls) = energy(prev)

\* an oblique collision of unequal masses in which the impulse turned and
\* changed the speed of both balls
EnergyWitness ==
    /\ pc = "collided"
    /\ Detected(prev)
    /\ prev[1].radius # prev[2].radius
    /\ prev[1].x # prev[2].x /\ prev[1].y # prev[2].y
    /\ ~Less(Zero, projectionOf(prev))
    /\ balls[1].v # prev[1].v /\ balls[1].angle # prev[1].angle
    /\ balls[2].v # prev[2].v /\ balls[2].angle # prev[2].angle

\* C5: a detected pair whose relative velocity projected on the normal is
\* > 0 has both positions corrected apart and the speed and heading of
\* both balls unchanged
SeparatingPairSkip ==
    (pc = "collided" /\ Detected(prev) /\ Less(Zero, projectionOf(prev))) =>
        /\ \A i \in 1..2 :
             /\ balls[i].v = prev[i].v
             /\ balls[i].angle = prev[i].angle
             /\ <<balls[i].x, balls[i].y>> # <<prev[i].x, prev[i].y>>
        /\ Less(SurdSq(separation(prev)), SurdSq(separation(balls)))

\* a detected pair of two moving balls that are separating
SeparatingWitness ==
    /\ pc = "collided"
    /\ Detected(prev)
    /\ Less(Zero, projectionOf(prev))
    /\ prev[1].v.c # Zero /\ prev[2].v.c # Zero

\* C9: after the positional correction of a detected pair the distance of
\* the centres is exactly radius_1 + radius_2, identical centres included
TangentAfterCorrection ==
    (pc = "collided" /\ Detected(prev)) =>
        SurdSq(separation(balls)) = Sq(I(prev[1].radius + prev[2].radius))

\* the same for pairs whose centres differ
TangentUnlessCoincident ==
    (pc = "collided" /\ Detected(prev) /\ separation(prev).c # Zero) =>
        SurdSq(separation(balls)) = Sq(I(prev[1].radius + prev[2].radius))


---------------------------------------------------------------------------
(* Properties of the main loop with one ball (SpecWall) *)

\* C1: a single ball made by Ball() is, after any number of iterations of
\* the main loop, still in the list with its centre inside
\* [0, WIDTH] x [0, HEIGHT]
WallContainment == Len(balls) = 1 /\ ~is_outside(balls[1])

\* the ball has been turned round by a wall and is still there
WallContainmentWitness ==
    /\ ticks >= 3
    /\ Len(balls) = 1
    /\ balls[1].v.c # Zero
    /\ balls[1].angle # prev[1].angle
    /\ balls[1].angle # new_ball.angle

\* the candidate next position of the ball crosses a vertical and a
\* horizontal wall and the heading points into both
CornerCase(ball) ==
    LET x0 == Add(ball.x, vx(ball))
        y0 == Add(ball.y, vy(ball))
        r == I(ball.radius)
    IN  /\ \/ Less(Sub(x0, r), Zero) /\ cosSign(ball.angle) < 0
           \/ Less(I(WIDTH), Add(x0, r)) /\ cosSign(ball.angle) > 0
        /\ \/ Less(Sub(y0, r), Zero) /\ sinSign(ball.angle) < 0
           \/ Less(I(HEIGHT), Add(y0, r)) /\ sinSign(ball.angle) > 0

\* C8: one move() of a ball in the corner case applies both reflections
\* (the heading becomes -(pi - angle)), holds x and y, keeps the speed and
\* leaves the ball inside the arena
CornerReflection ==
    (ticks > 0 /\ CornerCase(prev[1])) =>
        /\ Len(balls) = 1
        /\ balls[1].angle = Minus(PiMinus(prev[1].angle))
        /\ balls[1].x = prev[1].x
        /\ balls[1].y = prev[1].y
        /\ balls[1].v = prev[1].v
        /\ ~is_outside(balls[1])

\* a ball that moved obliquely into a corner in the last iteration
CornerWitness ==
    /\ ticks > 0
    /\ CornerCase(prev[1])
    /\ prev[1].angle.s # 0

---------------------------------------------------------------------------
(* Properties of the main loop with several balls (SpecTick) *)

\* the ids of a list increase with the index: the list is in creation order
InOrder(bs) == \A i, j \in 1..Len(bs) : i < j => bs[i].id < bs[j].id

\* C10: at every boundary between iterations of the main loop no ball of
\* the list has its centre outside [0, WIDTH] x [0, HEIGHT], the balls are
\* those of the list before the iteration that survived, in the same order
\* and with the same radius, and none was added
TickBoundary ==
    /\ \A i \in 1..Len(balls) : ~is_outside(balls[i])
    /\ InOrder(balls)
    /\ \A i \in 1..Len(balls) :
         \E j \in 1..Len(prev) :
            /\ prev[j].id = balls[i].id
            /\ prev[j].radius = balls[i].radius
    /\ Len(balls) <= Len(prev)

\* an iteration has just dropped a ball that a collision pushed out, and
\* another ball is left
TickBoundaryWitness ==
    /\ ticks > 0
    /\ Len(balls) >= 1
    /\ Len(balls) < Len(prev)


---------------------------------------------------------------------------
(* Properties of placement (SpecPlace, SpecPlaceFair) *)

\* C2: when placement has finished, the centres of every two balls of the
\* list are at least radius_i + radius_j apart
NonOverlap ==
    pc = "run" =>
        /\ Len(balls) = entrophy
        /\ \A i, j \in 1..Len(balls) :
             i # j =>
                ~SurdLess(distance(<<balls[i].x, balls[i].y>>,
                                   <<balls[j].x, balls[j].y>>),
                          I(balls[i].radius + balls[j].radius))

\* placement has finished with three balls after rejecting a candidate
NonOverlapWitness ==
    /\ pc = "run"
    /\ Len(balls) = 3
    /\ ID > Len(balls)

\* C7: placement always ends: it accepts the balls asked for, or stops
\* with a failure after a bounded number of attempts (the program has no
\* failure state, so ending is reaching the main loop)
PlacementEnds == <>(pc = "run")

---------------------------------------------------------------------------
(* Properties of explicit construction (SpecCtor) *)

\* the radius argument is given and outside [R_MIN, R_MAX]
BadRadius(radius) ==
    radius.given /\ ~(R_MIN <= radius.v /\ radius.v <= R_MAX)

\* the heading argument is given and outside [0, 2*pi]
BadAngle(angle) == angle.given /\ ~AngleInRange(angle.v)

\* C6: a call Ball(radius, angle) with a radius outside [R_MIN, R_MAX] or
\* a heading outside [0, 2*pi] raises and makes no ball
InvalidConstructionRejected ==
    (made.called /\ (BadRadius(made.radius) \/ BadAngle(made.angle))) =>
        made.raised

\* the same for arguments that are an int radius and a numeric heading
InvalidIntConstructionRejected ==
    (/\ made.called
     /\ \/ made.radius.isint /\ BadRadius(made.radius)
        \/ made.angle.isnum /\ BadAngle(made.angle)) =>
        made.raised

=============================================================================
